---- MODULE Spec2Model ----
(***************************************************************************)
(* Model of the managed-instance-group resource adapter                    *)
(* (google-beta/resource_compute_instance_group_manager.go).               *)
(*                                                                         *)
(* The host framework invokes one lifecycle handler at a time on a         *)
(* resource: create, read, update, delete or import.  A handler runs as a  *)
(* sequence of steps; every remote call is one step whose outcome (ok,     *)
(* rejected, timed out, ...) is chosen by the environment.  Strings that   *)
(* the code parses or searches are sequences: an identifier is a sequence  *)
(* of characters, an error message a sequence of words.                    *)
(***************************************************************************)
EXTENDS Integers, Sequences, FiniteSets, TLC

\* ------------------------------------------------------------------ bounds
\* Largest target_size / instance-group size the environment produces.
MaxSize == 3
\* Largest value of a fixed-or-percent field the transcoder check draws.
MaxVal == 30
\* Longest project, zone or name of a triple the codec check encodes.
MaxPartLen == 2
\* Longest identifier string the codec check hands to the parser.
MaxIdLen == 5

\* ------------------------------------------------------- program constants
\* for err != nil && attempt < 20
MaxDeleteRetries == 20

\* ------------------------------------------------------------------ errors
\* A Go error is the sequence of the words of its message; nil is <<>>.
NoErr == <<>>

\* strings.Contains(err.Error(), "timeout")
ContainsTimeout(e) == \E i \in 1..Len(e) : e[i] = "timeout"

\* fmt.Errorf("<context>: %s", err)
Wrap(context, e) == context \o e

\* Errors a rejected API request carries.
ApiErrors == { <<"googleapi", "503">>, <<"googleapi", "timeout">> }

\* Errors computeSharedOperationWait returns when polling fails.
PollErrors == { <<"timeout", "while", "waiting">>, <<"operation", "failed">> }

ErrDeleting == <<"Error", "deleting", "instance", "group", "manager">>
ErrGettingSize == <<"Error", "getting", "instance", "group", "size">>
ErrNotShrinking == <<"Error", "instance", "group", "isn't", "shrinking", "during", "delete">>
ErrCreating == <<"Error", "creating", "InstanceGroupManager">>
ErrPatching == <<"Error", "updating", "managed", "group", "instances">>
ErrUpdating == <<"Error", "updating", "InstanceGroupManager">>
ErrInvalidSpecifier == <<"Invalid", "instance", "group", "manager", "specifier">>
ErrInvalidImportId == <<"Invalid", "instance", "group", "manager", "import", "ID">>
ErrNoProject == <<"project", "not", "set">>
ErrNoZone == <<"zone", "not", "set">>
ErrNoRegion == <<"region", "not", "set">>
ErrWaitForState == <<"timeout", "while", "waiting", "for", "state", "created">>

\* ------------------------------------------------------- identifier codec
\* The character class [a-z0-9-].
NameChars ==
  { "a", "b", "c", "d", "e", "f", "g", "h", "i", "j", "k", "l", "m",
    "n", "o", "p", "q", "r", "s", "t", "u", "v", "w", "x", "y", "z",
    "0", "1", "2", "3", "4", "5", "6", "7", "8", "9", "-" }

AlnumChars == NameChars \ { "-" }

\* strings.Split(s, sep) for a one-character separator.
RECURSIVE Split(_, _)
Split(s, sep) ==
  IF \A i \in 1..Len(s) : s[i] # sep
    THEN << s >>
    ELSE LET i == CHOOSE k \in 1..Len(s) :
                    s[k] = sep /\ \A j \in 1..(k - 1) : s[j] # sep
         IN  << SubSeq(s, 1, i - 1) >> \o Split(SubSeq(s, i + 1, Len(s)), sep)

\* ^[a-z0-9-]+$
instanceGroupManagerIdNameRegex(s) ==
  Len(s) >= 1 /\ \A i \in 1..Len(s) : s[i] \in NameChars

\* The project pattern: a project id starts and ends with a letter or
\* digit and holds letters, digits and dashes in between.
ProjectRegex(s) ==
  /\ Len(s) >= 1
  /\ \A i \in 1..Len(s) : s[i] \in NameChars
  /\ s[1] \in AlnumChars
  /\ s[Len(s)] \in AlnumChars

\* ^ProjectRegex/[a-z0-9-]+/[a-z0-9-]+$
instanceGroupManagerIdRegex(s) ==
  LET parts == Split(s, "/")
  IN  /\ Len(parts) = 3
      /\ ProjectRegex(parts[1])
      /\ instanceGroupManagerIdNameRegex(parts[2])
      /\ instanceGroupManagerIdNameRegex(parts[3])

\* A slip of the format: zone and name the other way round.
terraformIdNameFirst(i) == i.Project \o << "/" >> \o i.Name \o << "/" >> \o i.Zone

\* instanceGroupManagerId.terraformId: "%s/%s/%s"
terraformId(i) == i.Project \o << "/" >> \o i.Zone \o << "/" >> \o i.Name

\* A slip of the switch: the bare-name case taken without its pattern, so
\* that the default case is never reached.
parseInstanceGroupManagerIdLenient(s) ==
  IF instanceGroupManagerIdRegex(s)
    THEN LET parts == Split(s, "/")
         IN  [ err |-> NoErr, Project |-> parts[1], Zone |-> parts[2], Name |-> parts[3] ]
    ELSE [ err |-> NoErr, Project |-> <<>>, Zone |-> <<>>, Name |-> s ]

\* parseInstanceGroupManagerId: the parsed identifier and the error.
parseInstanceGroupManagerId(s) ==
  IF instanceGroupManagerIdRegex(s)
    THEN LET parts == Split(s, "/")
         IN  [ err |-> NoErr, Project |-> parts[1], Zone |-> parts[2], Name |-> parts[3] ]
    ELSE IF instanceGroupManagerIdNameRegex(s)
      THEN [ err |-> NoErr, Project |-> <<>>, Zone |-> <<>>, Name |-> s ]
      ELSE [ err |-> ErrInvalidSpecifier, Project |-> <<>>, Zone |-> <<>>, Name |-> <<>> ]

\* ------------------------------------------------------ field transcoders
\* A nil pointer or nil slice is <<>>; a set one is << value >>.
Absent == <<>>
Present(v) == << v >>

\* A configuration set as a list (schema.Set.List, convertStringSet).
SetToList(S) ==
  CHOOSE l \in [1..Cardinality(S) -> S] : { l[i] : i \in DOMAIN l } = S

\* A list stored into a set-typed configuration field.
ListToSet(l) == { l[i] : i \in DOMAIN l }

\* data[key].(int) of a nested configuration block: the host presents a
\* field the user left out as the zero value.
IntField(data, key) == IF key \in DOMAIN data THEN data[key] ELSE 0

\* getNamedPortsBeta
getNamedPortsBeta(nps) ==
  [ i \in DOMAIN nps |-> [ Name |-> nps[i].name, Port |-> nps[i].port ] ]

\* flattenNamedPortsBeta
flattenNamedPortsBeta(namedPorts) ==
  [ i \in DOMAIN namedPorts |->
      [ name |-> namedPorts[i].Name, port |-> namedPorts[i].Port ] ]

\* expandFixedOrPercent: the loop over the configured blocks, each block
\* overwriting Percent or Fixed of the one result.
RECURSIVE expandFixedOrPercentLoop(_, _)
expandFixedOrPercentLoop(fixedOrPercent, configured) ==
  IF configured = <<>>
    THEN fixedOrPercent
    ELSE LET data == Head(configured)
             percent == IntField(data, "percent")
             next == IF percent > 0
                       THEN [ fixedOrPercent EXCEPT !.Percent = percent ]
                       ELSE [ fixedOrPercent EXCEPT
                                !.Fixed = IntField(data, "fixed"),
                                !.ForceSendFields = { "Fixed" } ]
         IN  expandFixedOrPercentLoop(next, Tail(configured))

expandFixedOrPercent(configured) ==
  expandFixedOrPercentLoop(
    [ Fixed |-> 0, Percent |-> 0, ForceSendFields |-> {} ], configured)

\* flattenFixedOrPercent
flattenFixedOrPercent(fixedOrPercent) ==
  IF fixedOrPercent.Percent > 0
    THEN << ("percent" :> fixedOrPercent.Percent) >>
    ELSE IF fixedOrPercent.Fixed > 0
      THEN << ("fixed" :> fixedOrPercent.Fixed) >>
      ELSE <<>>

\* ConvertSelfLinkToV1: a self link is the sequence of its path segments;
\* the API version segment becomes v1.
ConvertSelfLinkToV1(link) ==
  [ i \in DOMAIN link |-> IF link[i] = "beta" THEN "v1" ELSE link[i] ]

\* GetResourceNameFromSelfLink: the last path segment.
GetResourceNameFromSelfLink(link) == link[Len(link)]

\* expandVersions
expandVersions(configured) ==
  [ i \in DOMAIN configured |->
      [ Name |-> configured[i].name,
        InstanceTemplate |-> configured[i].instance_template,
        TargetSize |-> expandFixedOrPercent(configured[i].target_size) ] ]

\* flattenVersions
flattenVersions(versions) ==
  [ i \in DOMAIN versions |->
      [ name |-> versions[i].Name,
        instance_template |-> ConvertSelfLinkToV1(versions[i].InstanceTemplate),
        target_size |-> flattenFixedOrPercent(versions[i].TargetSize) ] ]

\* expandAutoHealingPolicies
expandAutoHealingPolicies(configured) ==
  [ i \in DOMAIN configured |->
      [ HealthCheck |-> configured[i].health_check,
        InitialDelaySec |-> configured[i].initial_delay_sec ] ]

\* flattenAutoHealingPolicies
flattenAutoHealingPolicies(autoHealingPolicies) ==
  [ i \in DOMAIN autoHealingPolicies |->
      [ health_check |-> autoHealingPolicies[i].HealthCheck,
        initial_delay_sec |-> autoHealingPolicies[i].InitialDelaySec ] ]

\* The FixedOrPercent expandUpdatePolicy builds for max_surge and
\* max_unavailable: the percent wins when it is positive.
expandPolicyFixedOrPercent(data, percentKey, fixedKey) ==
  IF IntField(data, percentKey) > 0
    THEN [ Fixed |-> 0, Percent |-> IntField(data, percentKey),
           ForceSendFields |-> {}, NullFields |-> { "Fixed" } ]
    ELSE [ Fixed |-> IntField(data, fixedKey), Percent |-> 0,
           ForceSendFields |-> { "Fixed" }, NullFields |-> { "Percent" } ]

\* expandUpdatePolicy: the loop over the configured blocks.
RECURSIVE expandUpdatePolicyLoop(_, _)
expandUpdatePolicyLoop(updatePolicy, configured) ==
  IF configured = <<>>
    THEN updatePolicy
    ELSE LET data == Head(configured)
             next ==
               [ MinimalAction |-> data.minimal_action,
                 Type |-> data.type,
                 MaxSurge |-> Present(expandPolicyFixedOrPercent(
                                data, "max_surge_percent", "max_surge_fixed")),
                 MaxUnavailable |-> Present(expandPolicyFixedOrPercent(
                                data, "max_unavailable_percent", "max_unavailable_fixed")),
                 MinReadySec |-> IF "min_ready_sec" \in DOMAIN data
                                   THEN data.min_ready_sec
                                   ELSE updatePolicy.MinReadySec ]
         IN  expandUpdatePolicyLoop(next, Tail(configured))

expandUpdatePolicy(configured) ==
  expandUpdatePolicyLoop(
    [ MinimalAction |-> "", Type |-> "", MaxSurge |-> Absent,
      MaxUnavailable |-> Absent, MinReadySec |-> 0 ], configured)

\* flattenUpdatePolicy: of the pointer manager.UpdatePolicy.
flattenUpdatePolicy(updatePolicy) ==
  IF updatePolicy = Absent
    THEN <<>>
    ELSE LET up == updatePolicy[1]
         IN  << [ max_surge_fixed |->
                    IF up.MaxSurge # Absent THEN up.MaxSurge[1].Fixed ELSE 0,
                  max_surge_percent |->
                    IF up.MaxSurge # Absent THEN up.MaxSurge[1].Percent ELSE 0,
                  max_unavailable_fixed |->
                    IF up.MaxUnavailable # Absent THEN up.MaxUnavailable[1].Fixed ELSE 0,
                  max_unavailable_percent |->
                    IF up.MaxUnavailable # Absent THEN up.MaxUnavailable[1].Percent ELSE 0,
                  min_ready_sec |-> up.MinReadySec,
                  minimal_action |-> up.MinimalAction,
                  type |-> up.Type ] >>

\* --------------------------------------------------- inputs of the model
ProjectStr == << "p", "1" >>
ZoneStr == << "z" >>
RegionStr == << "r" >>
NameStr == << "i", "g", "m" >>

\* What the provider configuration and the resource resolve project, zone
\* and region to; <<>> is "not resolvable".
Envs ==
  { [ project |-> ProjectStr, zone |-> ZoneStr, region |-> RegionStr ],
    [ project |-> <<>>, zone |-> ZoneStr, region |-> RegionStr ],
    [ project |-> ProjectStr, zone |-> <<>>, region |-> RegionStr ],
    [ project |-> ProjectStr, zone |-> <<>>, region |-> <<>> ] }

\* Two configurations of the resource, differing in every field.
ConfigA ==
  [ name |-> NameStr, description |-> "", base_instance_name |-> "base",
    project |-> <<>>, zone |-> <<>>, target_size |-> 0,
    named_port |-> {}, target_pools |-> {},
    auto_healing_policies |-> <<>>,
    version |-> << [ name |-> "v1",
                     instance_template |-> << "compute", "v1", "t1" >>,
                     target_size |-> << ("percent" :> 100) >> ] >>,
    update_policy |-> <<>>,
    fingerprint |-> "fp1", instance_group |-> <<>>, self_link |-> <<>>,
    wait_for_instances |-> FALSE ]

ConfigB ==
  [ name |-> NameStr, description |-> "group", base_instance_name |-> "web",
    project |-> <<>>, zone |-> <<>>, target_size |-> 0,
    named_port |-> { [ name |-> "http", port |-> 80 ] },
    target_pools |-> { "pool1" },
    auto_healing_policies |->
      << [ health_check |-> "hc", initial_delay_sec |-> 10 ] >>,
    version |-> << [ name |-> "v1",
                     instance_template |-> << "compute", "v1", "t1" >>,
                     target_size |-> <<>> ],
                   [ name |-> "v2",
                     instance_template |-> << "compute", "v1", "t2" >>,
                     target_size |-> << ("fixed" :> 0) >> ] >>,
    update_policy |->
      << [ minimal_action |-> "REPLACE", type |-> "PROACTIVE",
           max_surge_fixed |-> 0, max_surge_percent |-> 20,
           max_unavailable_fixed |-> 0, max_unavailable_percent |-> 0,
           min_ready_sec |-> 5 ] >>,
    fingerprint |-> "fp2", instance_group |-> <<>>, self_link |-> <<>>,
    wait_for_instances |-> TRUE ]

\* The resource data a handler is invoked with: the first configuration
\* with every target size, the second with one instance.
ResourceData ==
  { [ ConfigA EXCEPT !.target_size = s ] : s \in 0..MaxSize }
    \cup { [ ConfigB EXCEPT !.target_size = 1 ] }

\* The fields update looks at with d.HasChange.
PatchFields == { "target_pools", "auto_healing_policies", "version", "update_policy" }
UpdateFields == PatchFields \cup { "named_port", "target_size" }

\* Managed groups the API returns from a get.
RemoteManagers ==
  { [ Name |-> NameStr, Description |-> "", BaseInstanceName |-> "base",
      Zone |-> << "compute", "beta", "zones", ZoneStr >>,
      TargetSize |-> 2, TargetPools |-> << "pool1" >>,
      NamedPorts |-> << [ Name |-> "http", Port |-> 80 ] >>,
      Fingerprint |-> "fp3",
      InstanceGroup |-> << "compute", "beta", "instanceGroups", "igm" >>,
      SelfLink |-> << "compute", "beta", "instanceGroupManagers", "igm" >>,
      AutoHealingPolicies |-> << [ HealthCheck |-> "hc", InitialDelaySec |-> 10 ] >>,
      Versions |-> << [ Name |-> "v1",
                        InstanceTemplate |-> << "compute", "beta", "t1" >>,
                        TargetSize |-> [ Fixed |-> 0, Percent |-> 100 ] ] >>,
      UpdatePolicy |-> Absent ],
    [ Name |-> NameStr, Description |-> "group", BaseInstanceName |-> "web",
      Zone |-> << "compute", "beta", "zones", ZoneStr >>,
      TargetSize |-> 0, TargetPools |-> <<>>,
      NamedPorts |-> <<>>,
      Fingerprint |-> "fp4",
      InstanceGroup |-> << "compute", "beta", "instanceGroups", "igm" >>,
      SelfLink |-> << "compute", "beta", "instanceGroupManagers", "igm" >>,
      AutoHealingPolicies |-> <<>>,
      Versions |-> << [ Name |-> "v1",
                        InstanceTemplate |-> << "compute", "beta", "t1" >>,
                        TargetSize |-> [ Fixed |-> 0, Percent |-> 0 ] ],
                      [ Name |-> "v2",
                        InstanceTemplate |-> << "compute", "beta", "t2" >>,
                        TargetSize |-> [ Fixed |-> 1, Percent |-> 0 ] ] >>,
      UpdatePolicy |->
        Present([ MinimalAction |-> "RESTART", Type |-> "OPPORTUNISTIC",
                  MaxSurge |-> Present([ Fixed |-> 1, Percent |-> 0 ]),
                  MaxUnavailable |-> Absent,
                  MinReadySec |-> 0 ]) ] }

\* Identifiers a stored state holds before any handler ran: none (a new
\* resource) or the bare name an earlier import left.
StoredIds == { <<>>, NameStr }

\* Identifier strings a user hands to import.
ImportIds ==
  { ProjectStr \o << "/" >> \o ZoneStr \o << "/" >> \o NameStr,
    NameStr,
    ZoneStr \o << "/" >> \o NameStr,
    << "I", "g", "m" >>,
    <<>> }

\* ------------------------------------------------------------------- state
VARIABLES
  op,             \* the handler the host invoked last: create, read, ...
  pc,             \* the position in it; "done" once it returned
  ret,            \* the error the handler returned (NoErr: nil)
  id,             \* d.Id(), the stored identifier
  d,              \* the resource data of this invocation
  changed,        \* the fields d.HasChange reports as changed
  env,            \* what project, zone and region resolve to
  calls,          \* the remote calls this invocation issued, in order
  sets,           \* the fields this invocation stored with d.Set
  zonalID,        \* local: the parsed identifier
  manager,        \* local: the InstanceGroupManager built or fetched
  updatedManager, \* local: the patch request update builds
  err,            \* local: err of the function body
  loopErr,        \* local: the err declared inside delete's drain loop
  attempt,        \* local: delete's retry counter
  currentSize,    \* local: delete's baseline instance count
  fop,            \* a fixed-or-percent value on its way through the transcoders
  codec           \* an identifier on its way through the identifier codec

vars ==
  << op, pc, ret, id, d, changed, env, calls, sets, zonalID, manager,
     updatedManager, err, loopErr, attempt, currentSize, fop, codec >>

NoId == [ Project |-> <<>>, Zone |-> <<>>, Name |-> <<>> ]

\* &computeBeta.InstanceGroupManager{}: every optional field nil.
EmptyManager ==
  [ Fingerprint |-> "", TargetPools |-> Absent, AutoHealingPolicies |-> Absent,
    Versions |-> Absent, UpdatePolicy |-> Absent, ForceSendFields |-> {} ]

\* One remote call and how it ended: a request is "ok" or "rejected", a
\* poll of an operation "ok", "timeout" or "failed", a get "ok",
\* "notfound" or "rejected"; size is the instance count a get of the
\* instance group returned.
Call(api, out, size) == [ api |-> api, out |-> out, size |-> size ]

PollOutcome(e) ==
  IF e = NoErr THEN "ok" ELSE IF ContainsTimeout(e) THEN "timeout" ELSE "failed"

\* No identifier under way: the triple x that is encoded, the identifier
\* string s, and what parsing s returned.
NoCodec ==
  [ stage |-> "none", from |-> "none", x |-> NoId, s |-> <<>>,
    parsed |-> [ err |-> NoErr, Project |-> <<>>, Zone |-> <<>>, Name |-> <<>> ] ]

\* No fixed-or-percent value under way.
NoFop ==
  [ stage |-> "none", configured |-> <<>>,
    expanded |-> [ Fixed |-> 0, Percent |-> 0, ForceSendFields |-> {} ],
    flattened |-> <<>> ]

Init ==
  /\ fop = NoFop
  /\ codec = NoCodec
  /\ op = "none"
  /\ pc = "idle"
  /\ ret = NoErr
  /\ id \in StoredIds
  /\ d = ConfigA
  /\ changed = {}
  /\ env \in Envs
  /\ calls = <<>>
  /\ sets = {}
  /\ zonalID = NoId
  /\ manager = Absent
  /\ updatedManager = EmptyManager
  /\ err = NoErr
  /\ loopErr = NoErr
  /\ attempt = 0
  /\ currentSize = 0

\* The host invokes a handler with the resource data and the diff of this
\* invocation.
Invoke(handler, data, hasChange) ==
  /\ pc = "idle"
  /\ op' = handler
  /\ pc' = handler
  /\ ret' = NoErr
  /\ d' = data
  /\ changed' = hasChange
  /\ UNCHANGED << env, fop, codec >>
  /\ calls' = <<>>
  /\ sets' = {}
  /\ zonalID' = NoId
  /\ manager' = Absent
  /\ updatedManager' = EmptyManager
  /\ err' = NoErr
  /\ loopErr' = NoErr
  /\ attempt' = 0
  /\ currentSize' = 0

\* The handler returns e.
Return(e) ==
  /\ pc' = "done"
  /\ ret' = e

\* The host takes the result; the stored identifier is what stays.
Done ==
  /\ pc = "done"
  /\ op' = "none"
  /\ pc' = "idle"
  /\ ret' = NoErr
  /\ d' = ConfigA
  /\ changed' = {}
  /\ env' \in Envs
  /\ calls' = <<>>
  /\ sets' = {}
  /\ zonalID' = NoId
  /\ manager' = Absent
  /\ updatedManager' = EmptyManager
  /\ err' = NoErr
  /\ loopErr' = NoErr
  /\ attempt' = 0
  /\ currentSize' = 0
  /\ UNCHANGED << id, fop, codec >>

\* getProject, getZone, getRegion: the error; the value is env's.
getProject == IF env.project = <<>> THEN ErrNoProject ELSE NoErr
getZone == IF env.zone = <<>> THEN ErrNoZone ELSE NoErr
getRegion == IF env.region = <<>> THEN ErrNoRegion ELSE NoErr

\* ------------------------------------------------------------------ delete
StartDelete ==
  /\ id # <<>>
  /\ \E data \in ResourceData : Invoke("delete", data, {})
  /\ UNCHANGED id

\* Parse the identifier and resolve a missing project and zone.
DeleteBegin ==
  /\ pc = "delete"
  /\ LET parsed == parseInstanceGroupManagerId(id)
     IN  IF parsed.err # NoErr
           THEN Return(parsed.err) /\ UNCHANGED zonalID
           ELSE IF parsed.Project = <<>> /\ getProject # NoErr
             THEN Return(getProject) /\ UNCHANGED zonalID
             ELSE IF parsed.Zone = <<>> /\ getZone # NoErr
               THEN Return(getZone) /\ UNCHANGED zonalID
               ELSE /\ zonalID' =
                         [ Project |-> IF parsed.Project = <<>>
                                         THEN env.project ELSE parsed.Project,
                           Zone |-> IF parsed.Zone = <<>>
                                      THEN env.zone ELSE parsed.Zone,
                           Name |-> parsed.Name ]
                    /\ pc' = "delete_request"
                    /\ UNCHANGED ret
  /\ UNCHANGED << codec, fop, op, id, d, changed, env, calls, sets, manager,
                  updatedManager, err, loopErr, attempt, currentSize >>

\* The first delete request.
DeleteRequest ==
  /\ pc = "delete_request"
  /\ \E e \in { NoErr } \cup ApiErrors :
       /\ err' = e
       /\ calls' = Append(calls,
            Call("delete", IF e = NoErr THEN "ok" ELSE "rejected", 0))
  /\ attempt' = 0
  /\ pc' = "delete_retry"
  /\ UNCHANGED << codec, fop, op, ret, id, d, changed, env, sets, zonalID, manager,
                  updatedManager, loopErr, currentSize >>

\* A slip of the loop bound: one retry more.
RetryConditionOffByOne == err # NoErr /\ attempt <= MaxDeleteRetries

\* for err != nil && attempt < 20
RetryCondition == err # NoErr /\ attempt < MaxDeleteRetries

\* The retry loop, and what follows it: the error of the last attempt is
\* returned, or the baseline is read from target_size.
DeleteRetry ==
  /\ pc = "delete_retry"
  /\ IF RetryCondition
       THEN /\ attempt' = attempt + 1
            /\ \E e \in { NoErr } \cup ApiErrors :
                 /\ err' = e
                 /\ calls' = Append(calls,
                      Call("delete", IF e = NoErr THEN "ok" ELSE "rejected", 0))
            /\ UNCHANGED << pc, ret, currentSize >>
       ELSE IF err # NoErr
         THEN /\ Return(Wrap(ErrDeleting, err))
              /\ UNCHANGED << err, calls, attempt, currentSize >>
         ELSE /\ currentSize' = d.target_size
              /\ pc' = "delete_wait"
              /\ UNCHANGED << err, calls, attempt, ret >>
  /\ UNCHANGED << codec, fop, op, id, d, changed, env, sets, zonalID, manager,
                  updatedManager, loopErr >>

\* The first poll of the delete operation: its error is the function's err.
DeleteWait ==
  /\ pc = "delete_wait"
  /\ \E e \in { NoErr } \cup PollErrors :
       /\ err' = e
       /\ calls' = Append(calls, Call("wait", PollOutcome(e), 0))
  /\ pc' = "delete_drain"
  /\ UNCHANGED << codec, fop, op, ret, id, d, changed, env, sets, zonalID, manager,
                  updatedManager, loopErr, attempt, currentSize >>

\* for err != nil && currentSize > 0
DrainCondition == err # NoErr /\ currentSize > 0

\* d.SetId(""); return nil
DeleteFinish == id' = <<>> /\ Return(NoErr)

\* The head of the drain loop: leave it and finish, return an error that
\* is no timeout, or go on to read the instance group.
DeleteDrain ==
  /\ pc = "delete_drain"
  /\ IF DrainCondition
       THEN IF ~ContainsTimeout(err)
              THEN Return(err) /\ UNCHANGED id
              ELSE pc' = "delete_size" /\ UNCHANGED << ret, id >>
       ELSE DeleteFinish
  /\ UNCHANGED << codec, fop, op, d, changed, env, calls, sets, zonalID, manager,
                  updatedManager, err, loopErr, attempt, currentSize >>

\* Slips of the comparison: the test turned around, and a group that
\* stays as it is taken for a shrinking one.
NotShrinkingInverted(instanceGroupSize, baseline) == instanceGroupSize <= baseline
NotShrinkingStrict(instanceGroupSize, baseline) == instanceGroupSize > baseline

\* instanceGroupSize >= currentSize
NotShrinking(instanceGroupSize, baseline) == instanceGroupSize >= baseline

\* The body of the drain loop after the timeout test.  "instanceGroup, err
\* :=" declares an err of the loop body: the get's error and the result of
\* the poll that ends the body are stored in it, and the function's err,
\* which the loop condition tests, keeps the result of the first poll.
DeleteSize ==
  /\ pc = "delete_size"
  /\ \/ \E e \in ApiErrors :
          /\ loopErr' = e
          /\ calls' = Append(calls, Call("instanceGroups.get", "rejected", 0))
          /\ Return(Wrap(ErrGettingSize, e))
          /\ UNCHANGED currentSize
     \/ \E instanceGroupSize \in 0..MaxSize :
          /\ calls' = Append(calls, Call("instanceGroups.get", "ok", instanceGroupSize))
          /\ IF NotShrinking(instanceGroupSize, currentSize)
               THEN /\ Return(ErrNotShrinking)
                    /\ loopErr' = NoErr
                    /\ UNCHANGED currentSize
               ELSE /\ currentSize' = instanceGroupSize
                    /\ loopErr' = NoErr
                    /\ pc' = "delete_repoll"
                    /\ UNCHANGED ret
  /\ UNCHANGED << codec, fop, op, id, d, changed, env, sets, zonalID, manager,
                  updatedManager, err, attempt >>

\* The poll that ends the loop body, assigned to the loop body's err.
DeleteRepoll ==
  /\ pc = "delete_repoll"
  /\ \E e \in { NoErr } \cup PollErrors :
       /\ loopErr' = e
       /\ calls' = Append(calls, Call("wait", PollOutcome(e), 0))
  /\ pc' = "delete_drain"
  /\ UNCHANGED << codec, fop, op, ret, id, d, changed, env, sets, zonalID, manager,
                  updatedManager, err, attempt, currentSize >>

\* -------------------------------------------------------------------- read
ErrReading == << "Error", "reading", "Instance", "Group", "Manager" >>
NotFound == << "googleapi", "404" >>

AllFields ==
  { "base_instance_name", "name", "zone", "description", "project",
    "target_size", "target_pools", "named_port", "fingerprint",
    "instance_group", "self_link", "auto_healing_policies", "version",
    "update_policy" }

StartRead ==
  /\ id # <<>>
  /\ \E data \in ResourceData : Invoke("read", data, {})
  /\ UNCHANGED id

\* getProject, then getManager up to its remote call: parse the
\* identifier, resolve a missing project and zone (a zone that does not
\* resolve stays empty), and the region when the zone is empty.
ReadBegin ==
  /\ pc = "read"
  /\ LET parsed == parseInstanceGroupManagerId(id)
         zone == IF parsed.Zone = <<>> THEN env.zone ELSE parsed.Zone
     IN  IF getProject # NoErr
           THEN Return(getProject) /\ UNCHANGED zonalID
           ELSE IF parsed.err # NoErr
             THEN Return(parsed.err) /\ UNCHANGED zonalID
             ELSE IF zone = <<>> /\ getRegion # NoErr
               THEN Return(getRegion) /\ UNCHANGED zonalID
               ELSE /\ zonalID' =
                         [ Project |-> IF parsed.Project = <<>>
                                         THEN env.project ELSE parsed.Project,
                           Zone |-> zone,
                           Name |-> parsed.Name ]
                    /\ pc' = IF zone = <<>> THEN "read_search" ELSE "read_get"
                    /\ UNCHANGED ret
  /\ UNCHANGED << codec, fop, op, id, d, changed, env, calls, sets, manager,
                  updatedManager, err, loopErr, attempt, currentSize >>

\* handleNotFoundError: a not-found error is no error (and the identifier
\* is cleared, as read does again); any other error is returned with its
\* context.
handleNotFoundError(e) ==
  IF e = NotFound THEN NoErr ELSE Wrap(ErrReading, e)

\* A slip of read: a manager that is gone reported as an error.
ReadGoneAsError == UNCHANGED id /\ Return(ErrReading)

\* Read with manager == nil: d.SetId(""), in getManager and again in
\* read, and return nil.
ReadGone == id' = <<>> /\ Return(NoErr)

\* Read with the manager found: every field is stored, and read waits
\* for the instances when wait_for_instances is set.
ReadFound(m) ==
  /\ manager' = Present(m)
  /\ d' = [ d EXCEPT
              !.base_instance_name = m.BaseInstanceName,
              !.name = m.Name,
              !.zone = GetResourceNameFromSelfLink(m.Zone),
              !.description = m.Description,
              !.project = env.project,
              !.target_size = m.TargetSize,
              !.target_pools = ListToSet(m.TargetPools),
              !.named_port = ListToSet(flattenNamedPortsBeta(m.NamedPorts)),
              !.fingerprint = m.Fingerprint,
              !.instance_group = ConvertSelfLinkToV1(m.InstanceGroup),
              !.self_link = ConvertSelfLinkToV1(m.SelfLink),
              !.auto_healing_policies = flattenAutoHealingPolicies(m.AutoHealingPolicies),
              !.version = flattenVersions(m.Versions),
              !.update_policy = flattenUpdatePolicy(m.UpdatePolicy) ]
  /\ sets' = AllFields
  /\ IF d.wait_for_instances
       THEN pc' = "read_wait" /\ UNCHANGED ret
       ELSE Return(NoErr)
  /\ UNCHANGED id

\* getManager with no zone: the search of the region's zones returns an
\* error, nothing, or the manager.
ReadSearch ==
  /\ pc = "read_search"
  /\ \/ \E e \in ApiErrors :
          /\ calls' = Append(calls, Call("regionSearch", "rejected", 0))
          /\ Return(e)
          /\ UNCHANGED << id, d, sets, manager >>
     \/ /\ calls' = Append(calls, Call("regionSearch", "notfound", 0))
        /\ ReadGone
        /\ UNCHANGED << d, sets, manager >>
     \/ \E m \in RemoteManagers :
          /\ calls' = Append(calls, Call("regionSearch", "ok", 0))
          /\ ReadFound(m)
  /\ UNCHANGED << codec, fop, op, changed, env, zonalID, updatedManager, err, loopErr,
                  attempt, currentSize >>

\* getManager with a zone: the get returns an error, which
\* handleNotFoundError looks at, or the manager.
ReadGet ==
  /\ pc = "read_get"
  /\ \/ \E e \in ApiErrors \cup { NotFound } :
          /\ calls' = Append(calls,
               Call("get", IF e = NotFound THEN "notfound" ELSE "rejected", 0))
          /\ IF handleNotFoundError(e) # NoErr
               THEN Return(handleNotFoundError(e)) /\ UNCHANGED id
               ELSE ReadGone
          /\ UNCHANGED << d, sets, manager >>
     \/ \E m \in RemoteManagers :
          /\ calls' = Append(calls, Call("get", "ok", 0))
          /\ ReadFound(m)
  /\ UNCHANGED << codec, fop, op, changed, env, zonalID, updatedManager, err, loopErr,
                  attempt, currentSize >>

\* conf.WaitForState(): the instances reach "created", or the wait fails.
ReadWait ==
  /\ pc = "read_wait"
  /\ \/ /\ calls' = Append(calls, Call("waitForState", "ok", 0))
        /\ Return(NoErr)
     \/ /\ calls' = Append(calls, Call("waitForState", "timeout", 0))
        /\ Return(ErrWaitForState)
  /\ UNCHANGED << codec, fop, op, id, d, changed, env, sets, zonalID, manager,
                  updatedManager, err, loopErr, attempt, currentSize >>

\* ------------------------------------------------------------------ create
StartCreate ==
  /\ id = <<>>
  /\ \E data \in ResourceData : Invoke("create", data, {})
  /\ UNCHANGED id

\* The InstanceGroupManager create sends.
buildManager(data) ==
  [ Name |-> data.name,
    Description |-> data.description,
    BaseInstanceName |-> data.base_instance_name,
    TargetSize |-> data.target_size,
    NamedPorts |-> getNamedPortsBeta(SetToList(data.named_port)),
    TargetPools |-> SetToList(data.target_pools),
    AutoHealingPolicies |-> expandAutoHealingPolicies(data.auto_healing_policies),
    Versions |-> expandVersions(data.version),
    UpdatePolicy |-> Present(expandUpdatePolicy(data.update_policy)),
    ForceSendFields |-> { "TargetSize" } ]

\* Resolve project and zone and build the request.
CreateBegin ==
  /\ pc = "create"
  /\ IF getProject # NoErr
       THEN Return(getProject) /\ UNCHANGED manager
       ELSE IF getZone # NoErr
         THEN Return(getZone) /\ UNCHANGED manager
         ELSE /\ manager' = Present(buildManager(d))
              /\ pc' = "create_insert"
              /\ UNCHANGED ret
  /\ UNCHANGED << codec, fop, op, id, d, changed, env, calls, sets, zonalID,
                  updatedManager, err, loopErr, attempt, currentSize >>

\* A slip of create: the identifier not stored once the insert is accepted.
CreateSetIdSkipped == UNCHANGED id

\* d.SetId(instanceGroupManagerId{project, zone, manager.Name}.terraformId())
CreateSetId ==
  id' = terraformId([ Project |-> env.project, Zone |-> env.zone,
                      Name |-> manager[1].Name ])

\* The insert request; accepted, the identifier is stored.
CreateInsert ==
  /\ pc = "create_insert"
  /\ \/ \E e \in ApiErrors :
          /\ calls' = Append(calls, Call("insert", "rejected", 0))
          /\ Return(Wrap(ErrCreating, e))
          /\ UNCHANGED id
     \/ /\ calls' = Append(calls, Call("insert", "ok", 0))
        /\ CreateSetId
        /\ pc' = "create_wait"
        /\ UNCHANGED ret
  /\ UNCHANGED << codec, fop, op, d, changed, env, sets, zonalID, manager,
                  updatedManager, err, loopErr, attempt, currentSize >>

\* The poll of the insert operation; done, create goes on as read.
CreateWait ==
  /\ pc = "create_wait"
  /\ \E e \in { NoErr } \cup PollErrors :
       /\ calls' = Append(calls, Call("wait", PollOutcome(e), 0))
       /\ err' = e
       /\ IF e # NoErr
            THEN Return(e)
            ELSE pc' = "read" /\ UNCHANGED ret
  /\ UNCHANGED << codec, fop, op, id, d, changed, env, sets, zonalID, manager,
                  updatedManager, loopErr, attempt, currentSize >>

\* ------------------------------------------------------------------ update
StartUpdate ==
  /\ id # <<>>
  /\ \E data \in ResourceData, hasChange \in SUBSET UpdateFields :
       Invoke("update", data, hasChange)
  /\ UNCHANGED id

\* d.HasChange(key)
HasChange(key) == key \in changed

\* A slip of the patch request: the versions sent whether they changed
\* or not.
buildUpdatedManagerAlwaysVersions ==
  [ Fingerprint |-> d.fingerprint,
    TargetPools |->
      IF HasChange("target_pools")
        THEN Present(SetToList(d.target_pools)) ELSE Absent,
    AutoHealingPolicies |->
      IF HasChange("auto_healing_policies")
        THEN Present(expandAutoHealingPolicies(d.auto_healing_policies)) ELSE Absent,
    Versions |-> Present(expandVersions(d.version)),
    UpdatePolicy |->
      IF HasChange("update_policy")
        THEN Present(expandUpdatePolicy(d.update_policy)) ELSE Absent,
    ForceSendFields |->
      IF HasChange("auto_healing_policies")
        THEN { "AutoHealingPolicies" } ELSE {} ]

\* The patch request: the fingerprint, and each field that changed.
buildUpdatedManager ==
  [ Fingerprint |-> d.fingerprint,
    TargetPools |->
      IF HasChange("target_pools")
        THEN Present(SetToList(d.target_pools)) ELSE Absent,
    AutoHealingPolicies |->
      IF HasChange("auto_healing_policies")
        THEN Present(expandAutoHealingPolicies(d.auto_healing_policies)) ELSE Absent,
    Versions |->
      IF HasChange("version")
        THEN Present(expandVersions(d.version)) ELSE Absent,
    UpdatePolicy |->
      IF HasChange("update_policy")
        THEN Present(expandUpdatePolicy(d.update_policy)) ELSE Absent,
    ForceSendFields |->
      IF HasChange("auto_healing_policies")
        THEN { "AutoHealingPolicies" } ELSE {} ]

\* A slip of the change flag: a change of named_port sets it too.
changeWithNamedPort ==
  \/ HasChange("target_pools")
  \/ HasChange("auto_healing_policies")
  \/ HasChange("version")
  \/ HasChange("update_policy")
  \/ HasChange("named_port")

\* var change bool, set by each of the four tests
change ==
  \/ HasChange("target_pools")
  \/ HasChange("auto_healing_policies")
  \/ HasChange("version")
  \/ HasChange("update_policy")

\* Where update goes on after the patch, after the named ports, and
\* after building the patch request.
AfterPorts == IF HasChange("target_size") THEN "update_resize" ELSE "read"
AfterPatch == IF HasChange("named_port") THEN "update_ports" ELSE AfterPorts
AfterBuild == IF change THEN "update_patch" ELSE AfterPatch

\* Resolve project and zone and build the patch request.
UpdateBegin ==
  /\ pc = "update"
  /\ IF getProject # NoErr
       THEN Return(getProject) /\ UNCHANGED updatedManager
       ELSE IF getZone # NoErr
         THEN Return(getZone) /\ UNCHANGED updatedManager
         ELSE /\ updatedManager' = buildUpdatedManager
              /\ pc' = AfterBuild
              /\ UNCHANGED ret
  /\ UNCHANGED << codec, fop, op, id, d, changed, env, calls, sets, zonalID, manager,
                  err, loopErr, attempt, currentSize >>

\* A request of update: rejected, update returns the error with its
\* context; accepted, the operation is polled next.
UpdateRequest(at, api, context, waitAt) ==
  /\ pc = at
  /\ \/ \E e \in ApiErrors :
          /\ calls' = Append(calls, Call(api, "rejected", 0))
          /\ err' = e
          /\ Return(Wrap(context, e))
     \/ /\ calls' = Append(calls, Call(api, "ok", 0))
        /\ err' = NoErr
        /\ pc' = waitAt
        /\ UNCHANGED ret
  /\ UNCHANGED << codec, fop, op, id, d, changed, env, sets, zonalID, manager,
                  updatedManager, loopErr, attempt, currentSize >>

\* A slip of a poll of update: its error dropped.
UpdateWaitIgnoringError(at, next) ==
  /\ pc = at
  /\ \E e \in { NoErr } \cup PollErrors :
       /\ calls' = Append(calls, Call("wait", PollOutcome(e), 0))
       /\ err' = e
  /\ pc' = next
  /\ UNCHANGED << codec, fop, op, ret, id, d, changed, env, sets, zonalID, manager,
                  updatedManager, loopErr, attempt, currentSize >>

\* A poll of update: failed, update returns the error; done, update goes
\* on at next.
UpdateWait(at, next) ==
  /\ pc = at
  /\ \E e \in { NoErr } \cup PollErrors :
       /\ calls' = Append(calls, Call("wait", PollOutcome(e), 0))
       /\ err' = e
       /\ IF e # NoErr
            THEN Return(e)
            ELSE pc' = next /\ UNCHANGED ret
  /\ UNCHANGED << codec, fop, op, id, d, changed, env, sets, zonalID, manager,
                  updatedManager, loopErr, attempt, currentSize >>

UpdatePatch == UpdateRequest("update_patch", "patch", ErrPatching, "update_patch_wait")
UpdatePatchWait == UpdateWait("update_patch_wait", AfterPatch)
UpdateSetNamedPorts ==
  UpdateRequest("update_ports", "setNamedPorts", ErrUpdating, "update_ports_wait")
UpdateSetNamedPortsWait == UpdateWait("update_ports_wait", AfterPorts)
UpdateResize == UpdateRequest("update_resize", "resize", ErrUpdating, "update_resize_wait")
UpdateResizeWait == UpdateWait("update_resize_wait", "read")

\* ------------------------------------------------------------------ import
StartImport ==
  /\ id = <<>>
  /\ \E s \in ImportIds :
       /\ Invoke("import", ConfigA, {})
       /\ id' = s

\* resourceInstanceGroupManagerStateImporter; the host keeps nothing of
\* an import that failed.
ImportState ==
  /\ pc = "import"
  /\ LET parsed == parseInstanceGroupManagerId(id)
     IN  IF parsed.err # NoErr
           THEN /\ Return(parsed.err)
                /\ id' = <<>>
                /\ d' = [ d EXCEPT !.wait_for_instances = FALSE ]
                /\ sets' = { "wait_for_instances" }
           ELSE IF parsed.Zone = <<>> \/ parsed.Project = <<>>
             THEN /\ Return(ErrInvalidImportId)
                  /\ id' = <<>>
                  /\ d' = [ d EXCEPT !.wait_for_instances = FALSE ]
                  /\ sets' = { "wait_for_instances" }
             ELSE /\ Return(NoErr)
                  /\ d' = [ d EXCEPT !.wait_for_instances = FALSE,
                                     !.project = parsed.Project,
                                     !.zone = parsed.Zone,
                                     !.name = parsed.Name ]
                  /\ sets' = { "wait_for_instances", "project", "zone", "name" }
                  /\ UNCHANGED id
  /\ UNCHANGED << codec, fop, op, changed, env, calls, zonalID, manager, updatedManager,
                  err, loopErr, attempt, currentSize >>

\* ----------------------------------------------------------- specification
Next ==
  \/ StartCreate \/ CreateBegin \/ CreateInsert \/ CreateWait
  \/ StartRead \/ ReadBegin \/ ReadSearch \/ ReadGet \/ ReadWait
  \/ StartUpdate \/ UpdateBegin
  \/ UpdatePatch \/ UpdatePatchWait
  \/ UpdateSetNamedPorts \/ UpdateSetNamedPortsWait
  \/ UpdateResize \/ UpdateResizeWait
  \/ StartDelete \/ DeleteBegin \/ DeleteRequest \/ DeleteRetry
  \/ DeleteWait \/ DeleteDrain \/ DeleteSize \/ DeleteRepoll
  \/ StartImport \/ ImportState
  \/ Done

Spec == Init /\ [][Next]_vars

\* ------------------------------------------- the transcoders on their own
\* A target_size block of a version: at most one block, of fixed,
\* percent, or both.
FixedOrPercentBlocks ==
  { ("fixed" :> v) : v \in (-1)..MaxVal }
    \cup { ("percent" :> v) : v \in 0..MaxVal }
    \cup { [ fixed |-> v, percent |-> w ] : v, w \in 0..2 }

FixedOrPercentConfigs == { <<>> } \cup { << b >> : b \in FixedOrPercentBlocks }

TranscodeInit ==
  /\ Init
  /\ id = <<>>
  /\ env = [ project |-> ProjectStr, zone |-> ZoneStr, region |-> RegionStr ]

Lifecycle ==
  << op, pc, ret, id, d, changed, env, calls, sets, zonalID, manager,
     updatedManager, err, loopErr, attempt, currentSize >>

Configure ==
  /\ fop.stage = "none"
  /\ \E c \in FixedOrPercentConfigs :
       fop' = [ NoFop EXCEPT !.stage = "configured", !.configured = c ]
  /\ UNCHANGED << Lifecycle, codec >>

Expand ==
  /\ fop.stage = "configured"
  /\ fop' = [ fop EXCEPT !.stage = "expanded",
                         !.expanded = expandFixedOrPercent(fop.configured) ]
  /\ UNCHANGED << Lifecycle, codec >>

Flatten ==
  /\ fop.stage = "expanded"
  /\ fop' = [ fop EXCEPT !.stage = "flattened",
                         !.flattened = flattenFixedOrPercent(fop.expanded) ]
  /\ UNCHANGED << Lifecycle, codec >>

Forget ==
  /\ fop.stage = "flattened"
  /\ fop' = NoFop
  /\ UNCHANGED << Lifecycle, codec >>

TranscodeNext == Configure \/ Expand \/ Flatten \/ Forget

SpecTranscode == TranscodeInit /\ [][TranscodeNext]_vars

\* ---------------------------------------- the identifier codec on its own
\* The characters the parts of a triple are drawn from: a letter, the
\* dash and the separator.
PartChars == { "a", "-", "/" }

\* The characters of a supplied identifier string: the same and an
\* uppercase letter.
IdChars == PartChars \cup { "A" }

\* The strings over chars of at most n characters.
Strings(chars, n) == UNION { [ 1..k -> chars ] : k \in 0..n }

\* The triples the codec check encodes, valid or not.
Triples ==
  [ Project : Strings(PartChars, MaxPartLen),
    Zone : Strings(PartChars, MaxPartLen),
    Name : Strings(PartChars, MaxPartLen) ]

CodecInit == TranscodeInit

\* A triple to encode is at hand.
Compose ==
  /\ codec.stage = "none"
  /\ \E x \in Triples :
       codec' = [ NoCodec EXCEPT !.stage = "triple", !.from = "triple", !.x = x ]
  /\ UNCHANGED << Lifecycle, fop >>

\* i.terraformId()
EncodeId ==
  /\ codec.stage = "triple"
  /\ codec' = [ codec EXCEPT !.stage = "string", !.s = terraformId(codec.x) ]
  /\ UNCHANGED << Lifecycle, fop >>

\* An identifier string comes from outside (import, a stored id).
Supply ==
  /\ codec.stage = "none"
  /\ \E s \in Strings(IdChars, MaxIdLen) :
       codec' = [ NoCodec EXCEPT !.stage = "string", !.from = "string", !.s = s ]
  /\ UNCHANGED << Lifecycle, fop >>

\* parseInstanceGroupManagerId(s)
DecodeId ==
  /\ codec.stage = "string"
  /\ codec' = [ codec EXCEPT !.stage = "parsed",
                             !.parsed = parseInstanceGroupManagerId(codec.s) ]
  /\ UNCHANGED << Lifecycle, fop >>

ForgetId ==
  /\ codec.stage = "parsed"
  /\ codec' = NoCodec
  /\ UNCHANGED << Lifecycle, fop >>

CodecNext == Compose \/ EncodeId \/ Supply \/ DecodeId \/ ForgetId

SpecCodec == CodecInit /\ [][CodecNext]_vars

\* ------------------------------------------------- reading the call log
CallsOf(api) == { i \in DOMAIN calls : calls[i].api = api }
Count(api) == Cardinality(CallsOf(api))

IsPoll(i) == calls[i].api = "wait"
IsSizeRead(i) == calls[i].api = "instanceGroups.get"

\* The baseline the size read at i is compared with: the size the read
\* before it returned, or the stored target_size.
BaselineAt(i) ==
  LET before == { j \in 1..(i - 1) : IsSizeRead(j) /\ calls[j].out = "ok" }
  IN  IF before = {}
        THEN d.target_size
        ELSE calls[CHOOSE j \in before : \A k \in before : k <= j].size

DeleteAccepted == \E i \in CallsOf("delete") : calls[i].out = "ok"

\* The identifier create stores for the model's project, zone and name.
CreatedId == << "p", "1", "/", "z", "/", "i", "g", "m" >>

\* ------------------------------------------------------------- properties
KeepsShrinking ==
  \A i \in DOMAIN calls :
    IsSizeRead(i) => calls[i].out = "ok" /\ calls[i].size < BaselineAt(i)

EveryPollTimedOut ==
  \A i \in DOMAIN calls : IsPoll(i) => calls[i].out = "timeout"

\* C1: a delete whose request was accepted, whose polls all timed out and
\* whose every size read was below the baseline before it (the stored
\* target_size at first) returns nil and has cleared the identifier.
C1_DeleteSucceedsWhileShrinking ==
  ( /\ op = "delete"
    /\ pc = "done"
    /\ DeleteAccepted
    /\ EveryPollTimedOut
    /\ KeepsShrinking )
  => ( ret = NoErr /\ id = <<>> )

\* A delete that drained over three timed-out polls and a fourth.
C1_ShrunkToZero ==
  /\ op = "delete"
  /\ pc = "done"
  /\ DeleteAccepted
  /\ EveryPollTimedOut
  /\ KeepsShrinking
  /\ Count("instanceGroups.get") = 3
  /\ Count("wait") = 4
  /\ ret = NoErr
  /\ id = <<>>

\* C2: a size read that follows a timed-out poll, with a positive
\* baseline, and returns a size at or above the baseline is the last call
\* of the delete: delete has returned the "isn't shrinking" error and the
\* identifier is still stored.
C2_DeleteFailsWhenNotShrinking ==
  op = "delete" =>
    \A i \in DOMAIN calls :
      ( /\ i > 1
        /\ IsSizeRead(i)
        /\ calls[i].out = "ok"
        /\ IsPoll(i - 1)
        /\ calls[i - 1].out = "timeout"
        /\ BaselineAt(i) > 0
        /\ calls[i].size >= BaselineAt(i) )
      => ( /\ i = Len(calls)
           /\ pc = "done"
           /\ ret = ErrNotShrinking
           /\ id # <<>> )

\* A delete that saw the group shrink once and then stay as it was, after
\* a poll that timed out again.
C2_StoppedShrinking ==
  /\ op = "delete"
  /\ pc = "done"
  /\ ret = ErrNotShrinking
  /\ id # <<>>
  /\ Count("instanceGroups.get") = 2
  /\ IsSizeRead(Len(calls))
  /\ calls[Len(calls)].size = BaselineAt(Len(calls))
  /\ BaselineAt(Len(calls)) > 0
  /\ calls[Len(calls) - 1].out = "timeout"

\* A failed poll is tolerated when it is a timeout and a size read next to
\* it (the one it triggers, or the one before a poll that ends the loop
\* body) saw the group shrink.
PollTolerated(i) ==
  /\ calls[i].out = "timeout"
  /\ \E j \in { i - 1, i + 1 } \cap DOMAIN calls :
       IsSizeRead(j) /\ calls[j].out = "ok" /\ calls[j].size < BaselineAt(j)

\* C3: a delete that returned after a poll failed, the poll not being a
\* tolerated timeout, returned an error and kept the identifier; for
\* every poll and every target_size.
C3_PollFailureSurfaced ==
  ( op = "delete" /\ pc = "done" ) =>
    \A i \in DOMAIN calls :
      ( IsPoll(i) /\ calls[i].out # "ok" /\ ~PollTolerated(i) )
      => ( ret # NoErr /\ id # <<>> )

PatchField(f) ==
  CASE f = "target_pools" -> updatedManager.TargetPools
    [] f = "auto_healing_policies" -> updatedManager.AutoHealingPolicies
    [] f = "version" -> updatedManager.Versions
    [] f = "update_policy" -> updatedManager.UpdatePolicy

\* C4: the patch request update sent carries the stored fingerprint and,
\* of target_pools, auto_healing_policies, version and update_policy,
\* the fields that changed and no other.
C4_PatchCarriesChangedFields ==
  ( op = "update" /\ Count("patch") > 0 /\ sets = {} ) =>
    /\ updatedManager.Fingerprint = d.fingerprint
    /\ \A f \in PatchFields : (PatchField(f) # Absent) <=> (f \in changed)

\* A patch sent for a change of target_pools alone.
C4_OnlyTargetPoolsChanged ==
  /\ op = "update"
  /\ Count("patch") > 0
  /\ sets = {}
  /\ changed = { "target_pools" }
  /\ d.target_pools = { "pool1" }
  /\ updatedManager.TargetPools = << << "pool1" >> >>
  /\ updatedManager.AutoHealingPolicies = Absent
  /\ updatedManager.Versions = Absent
  /\ updatedManager.UpdatePolicy = Absent
  /\ updatedManager.Fingerprint = "fp2"

\* An update all of whose sub-operations succeeded: it went on to read.
UpdateReachedRead ==
  /\ op = "update"
  /\ \/ pc \in { "read", "read_get", "read_search", "read_wait" }
     \/ pc = "done" /\ Count("get") + Count("regionSearch") > 0
  /\ \A i \in DOMAIN calls :
       calls[i].api \in { "patch", "setNamedPorts", "resize", "wait" }
         => calls[i].out = "ok"

Times(cond) == IF cond THEN 1 ELSE 0

\* C5: an update whose sub-operations all succeeded issued patch once
\* if one of the four patch fields changed and never otherwise,
\* set-named-ports once if named_port changed and never otherwise,
\* resize once if target_size changed and never otherwise, and no other
\* mutating call.
C5_CallsFollowChanges ==
  UpdateReachedRead =>
    /\ Count("patch") = Times(changed \cap PatchFields # {})
    /\ Count("setNamedPorts") = Times("named_port" \in changed)
    /\ Count("resize") = Times("target_size" \in changed)
    /\ Count("insert") = 0
    /\ Count("delete") = 0

\* An update for a change of named_port alone.
C5_OnlyNamedPortChanged ==
  /\ UpdateReachedRead
  /\ pc = "done"
  /\ changed = { "named_port" }
  /\ Count("setNamedPorts") = 1
  /\ Count("patch") = 0
  /\ Count("resize") = 0

SubOps == { "patch", "setNamedPorts", "resize" }

Rank(api) ==
  CASE api = "patch" -> 1 [] api = "setNamedPorts" -> 2 [] api = "resize" -> 3

\* ret ends with e
EndsWith(r, e) ==
  Len(r) >= Len(e) /\ SubSeq(r, Len(r) - Len(e) + 1, Len(r)) = e

\* C6: in an update the requests come in the order patch,
\* set-named-ports, resize; the call after a request is the poll of its
\* operation, and the call before a later request a poll that ended
\* well; a request or poll that failed is the last call, and update has
\* returned its error, so that no later sub-operation and no read
\* followed.
C6_UpdateOrderAndAbort ==
  op = "update" =>
    /\ \A i, j \in DOMAIN calls :
         ( i < j /\ calls[i].api \in SubOps /\ calls[j].api \in SubOps )
           => Rank(calls[i].api) < Rank(calls[j].api)
    /\ \A i \in DOMAIN calls :
         ( calls[i].api \in SubOps /\ i < Len(calls) ) => IsPoll(i + 1)
    /\ \A i \in DOMAIN calls :
         ( calls[i].api \in SubOps /\ i > 1 )
           => ( IsPoll(i - 1) /\ calls[i - 1].out = "ok" )
    /\ \A i \in DOMAIN calls :
         ( calls[i].api \in SubOps \cup { "wait" } /\ calls[i].out # "ok" )
           => ( /\ i = Len(calls)
                /\ pc = "done"
                /\ ret # NoErr
                /\ err # NoErr
                /\ IF IsPoll(i) THEN ret = err ELSE EndsWith(ret, err) )

\* An update of patch fields, named_port and target_size whose poll of
\* set-named-ports failed.
C6_PortsPollFailed ==
  /\ op = "update"
  /\ pc = "done"
  /\ "target_size" \in changed
  /\ Count("patch") = 1
  /\ Count("setNamedPorts") = 1
  /\ Count("resize") = 0
  /\ Count("get") = 0
  /\ IsPoll(Len(calls))
  /\ calls[Len(calls)].out = "failed"
  /\ ret = err
  /\ ret # NoErr

\* C7: delete issues at most 21 delete requests and none after one that
\* was accepted; once it has left the retry loop with no request
\* accepted, it has issued 21, whatever the errors were, and has
\* returned the last error with no poll made and the identifier kept.
C7_DeleteRetriesBounded ==
  op = "delete" =>
    /\ Count("delete") <= 21
    /\ \A i \in CallsOf("delete") :
         calls[i].out = "ok" => \A j \in CallsOf("delete") : j <= i
    /\ ( /\ pc \notin { "delete", "delete_request", "delete_retry" }
         /\ calls # <<>>
         /\ ~DeleteAccepted )
       => ( /\ Count("delete") = 21
            /\ pc = "done"
            /\ err \in ApiErrors
            /\ ret = ErrDeleting \o err
            /\ Count("wait") = 0
            /\ id # <<>> )

\* A delete all of whose 21 requests were rejected.
C7_AllAttemptsFailed ==
  /\ op = "delete"
  /\ pc = "done"
  /\ Count("delete") = 21
  /\ ~DeleteAccepted
  /\ ret # NoErr
  /\ Count("wait") = 0
  /\ id # <<>>

InsertAccepted == \E i \in CallsOf("insert") : calls[i].out = "ok"

NoReadCall == Count("get") = 0 /\ Count("regionSearch") = 0

\* C8: in create, up to the read that ends it, an identifier is stored
\* exactly if the insert request was accepted, and it is
\* project/zone/name; it is stored when the operation is about to be
\* polled; a rejected insert returns an error with no identifier and no
\* poll; a failed poll returns its error with the identifier stored and
\* no read.
C8_CreateStoresIdBeforePoll ==
  op = "create" =>
    /\ NoReadCall => ( (id # <<>>) <=> InsertAccepted )
    /\ ( NoReadCall /\ InsertAccepted ) => id = CreatedId
    /\ Count("wait") > 0 => InsertAccepted
    /\ pc = "create_wait" => ( id = CreatedId /\ Count("wait") = 0 )
    /\ ( pc = "done" /\ calls # <<>> /\ calls[Len(calls)].api = "insert" )
       => ( /\ calls[Len(calls)].out = "rejected"
            /\ ret # NoErr
            /\ id = <<>>
            /\ Count("wait") = 0 )
    /\ ( pc = "done" /\ calls # <<>> /\ IsPoll(Len(calls)) )
       => ( /\ calls[Len(calls)].out # "ok"
            /\ ret = err
            /\ ret # NoErr
            /\ id = CreatedId
            /\ NoReadCall )

\* A create whose poll failed.
C8_PollFailedIdKept ==
  /\ op = "create"
  /\ pc = "done"
  /\ calls # <<>>
  /\ IsPoll(Len(calls))
  /\ calls[Len(calls)].out # "ok"
  /\ InsertAccepted
  /\ id = CreatedId
  /\ ret # NoErr

\* C9: a get or a region search that found no managed group is the last
\* call: read has returned nil with the identifier cleared, no field
\* stored and no wait for the instances.
C9_ReadNotFoundClearsId ==
  \A i \in DOMAIN calls :
    ( calls[i].api \in { "get", "regionSearch" } /\ calls[i].out = "notfound" )
    => ( /\ i = Len(calls)
         /\ pc = "done"
         /\ ret = NoErr
         /\ id = <<>>
         /\ sets = {}
         /\ Count("waitForState") = 0 )

\* A read, of a resource that waits for its instances, whose get found
\* nothing.
C9_GetFoundNothing ==
  /\ op = "read"
  /\ pc = "done"
  /\ calls # <<>>
  /\ calls[Len(calls)].api = "get"
  /\ calls[Len(calls)].out = "notfound"
  /\ d.wait_for_instances
  /\ id = <<>>
  /\ ret = NoErr

\* Exactly one of fixed and percent is set, to a value that is not
\* negative.
OneFieldSet(configured) ==
  /\ Len(configured) = 1
  /\ Cardinality(DOMAIN configured[1]) = 1
  /\ \A k \in DOMAIN configured[1] : configured[1][k] >= 0

\* C10: flattenFixedOrPercent(expandFixedOrPercent(x)) is x for every x
\* in which exactly one of fixed and percent is set and is not negative,
\* zero included.
C10_FlattenExpandRoundTrip ==
  ( fop.stage = "flattened" /\ OneFieldSet(fop.configured) )
  => fop.flattened = fop.configured

\* The triple the claim is about: the project matches the project
\* pattern, zone and name match [a-z0-9-]+.
ValidTriple(x) ==
  /\ ProjectRegex(x.Project)
  /\ instanceGroupManagerIdNameRegex(x.Zone)
  /\ instanceGroupManagerIdNameRegex(x.Name)

\* The triple a parse returned.
ParsedTriple ==
  [ Project |-> codec.parsed.Project, Zone |-> codec.parsed.Zone,
    Name |-> codec.parsed.Name ]

\* C11: for every triple x whose project matches the project pattern and
\* whose zone and name match [a-z0-9-]+, parsing terraformId(x) succeeds
\* and returns the project, zone and name of x.
C11_IdRoundTrip ==
  ( codec.stage = "parsed" /\ codec.from = "triple" /\ ValidTriple(codec.x) )
  => ( codec.parsed.err = NoErr /\ ParsedTriple = codec.x )

\* A valid triple with dashes in zone and name, zone and name different,
\* went through terraformId and the parser.
C11_DashedTripleParsed ==
  /\ codec.stage = "parsed"
  /\ codec.from = "triple"
  /\ codec.x = [ Project |-> << "a" >>, Zone |-> << "-", "a" >>, Name |-> << "a", "-" >> ]
  /\ codec.s = << "a", "/", "-", "a", "/", "a", "-" >>
  /\ codec.parsed.err = NoErr

\* s is a bare name: one or more characters, each a lowercase letter, a
\* digit or the dash.
BareName(s) == s # <<>> /\ \A k \in DOMAIN s : s[k] \in NameChars

\* s reads as project/zone/name: some two of its separators cut it into a
\* project that matches the project pattern and two bare names.
ThreePart(s) ==
  \E i, j \in DOMAIN s :
    /\ i < j
    /\ s[i] = "/"
    /\ s[j] = "/"
    /\ ProjectRegex(SubSeq(s, 1, i - 1))
    /\ BareName(SubSeq(s, i + 1, j - 1))
    /\ BareName(SubSeq(s, j + 1, Len(s)))

\* C12: parsing a bare name matching [a-z0-9-]+ succeeds with an empty
\* project, an empty zone and the string as name; parsing a string that
\* matches neither the three-part pattern nor the bare-name pattern
\* returns the invalid-specifier error and no identifier.
C12_DecodeBareNameOrFail ==
  ( codec.stage = "parsed" /\ codec.from = "string" ) =>
    /\ BareName(codec.s) =>
         /\ codec.parsed.err = NoErr
         /\ ParsedTriple = [ Project |-> <<>>, Zone |-> <<>>, Name |-> codec.s ]
    /\ ( ~BareName(codec.s) /\ ~ThreePart(codec.s) ) =>
         /\ codec.parsed.err = ErrInvalidSpecifier
         /\ ParsedTriple = NoId

\* A two-part string was parsed and refused.
C12_TwoPartRefused ==
  /\ codec.stage = "parsed"
  /\ codec.from = "string"
  /\ codec.s = << "a", "/", "a" >>
  /\ codec.parsed.err = ErrInvalidSpecifier

\* The first poll of the delete operation is call i and timed out, the
\* size read that follows saw the group shrunk to a size still above 0,
\* and the re-poll after it completed without error.
RepollSucceededAt(i) ==
  /\ i + 2 \in DOMAIN calls
  /\ IsPoll(i)
  /\ \A j \in 1..(i - 1) : ~IsPoll(j)
  /\ calls[i].out = "timeout"
  /\ IsSizeRead(i + 1)
  /\ calls[i + 1].out = "ok"
  /\ calls[i + 1].size > 0
  /\ calls[i + 1].size < BaselineAt(i + 1)
  /\ IsPoll(i + 2)
  /\ calls[i + 2].out = "ok"

\* C13: in a delete whose first poll timed out, whose size read saw the
\* group shrunk to a size above 0 and whose re-poll then completed
\* without error, the re-poll is the last call (the instance group is
\* not read again) and delete returns nil with the identifier cleared.
C13_DrainFollowsLatestPoll ==
  op = "delete" =>
    \A i \in DOMAIN calls :
      RepollSucceededAt(i) =>
        /\ Len(calls) = i + 2
        /\ pc = "done" => ( ret = NoErr /\ id = <<>> )

====
